---- MODULE Spec2Model ----
(***************************************************************************)
(* Model of setup.py of scs-python: one build invocation                   *)
(*   install_scs -> setup() -> build_ext_scs.finalize_options ->           *)
(*   build_ext_scs.build_extensions (-> can_compile_with_openmp) ->        *)
(*   build_ext_scs.build_extension for each target.                        *)
(*                                                                         *)
(* Python lists are objects with identity: they live in `heap`, a sequence *)
(* of list values, and a reference is an index into it.  `x += y` and      *)
(* `x.extend(y)` update the heap cell in place; `x + y` and `list(x)`      *)
(* allocate a new cell.  A dict is a function whose domain is its key set. *)
(* A macro (name, value) is the pair <<name, value>>, with the values      *)
(* None, 1 and 999 written "None", "1" and "999".                          *)
(***************************************************************************)
EXTENDS Integers, Sequences, FiniteSets, TLC

VARIABLES
    args,          \* argparse namespace: gpu, float32, extraverbose, int32, blas64
    platform,      \* platform.system()
    environ,       \* os.environ, the two variables setup.py reads
    pc,            \* position of the build invocation
    heap,          \* the list objects
    ext_modules,   \* the Extension objects, in order (fields hold references)
    copy,          \* build_ext_scs.copy: sequence of <<key, reference>>
    infos,         \* <<blas_info, lapack_info>> as returned by get_infos
    get_info_log,  \* the get_info calls made, in order: name and result
    compiler,      \* kind of self.compiler
    frame,         \* locals of build_extensions / can_compile_with_openmp
    fs,            \* file system and process state the probe touches
    openmp,        \* outcome of the parallelism step of build_extensions
    assembled,     \* names of the targets the shared metadata was merged into
    built,         \* names of the targets compiled so far
    error          \* the exception propagated out of the invocation, or "none"

vars == <<args, platform, environ, pc, heap, ext_modules, copy, infos,
          get_info_log, compiler, frame, fs, openmp, assembled, built, error>>

-----------------------------------------------------------------------------
(* Bounds *)

\* longest value of BLAS_LAPACK_LIBS that is tried
MaxLibsLen == 2

-----------------------------------------------------------------------------
(* Generic helpers *)

Range(s) == {s[i] : i \in 1..Len(s)}

IndexOf(s, x) == CHOOSE i \in 1..Len(s) : s[i] = x /\ \A j \in 1..(i-1) : s[j] # x

SeqsUpTo(S, n) == UNION {[1..k -> S] : k \in 0..n}

\* dict.pop(k, []) / dict.get(k, []) on a dict whose values are lists
DictGet(d, k) == IF k \in DOMAIN d THEN d[k] ELSE <<>>

EmptyDict == [k \in {} |-> <<>>]

\* the list attributes of an Extension, in the order Extension.__init__ sets them
KeySeq == <<"define_macros", "include_dirs", "library_dirs", "libraries",
            "extra_compile_args", "extra_link_args">>

Keys == Range(KeySeq)

\* a new list object holding v; its reference is Len(h) + 1
Alloc(h, v) == Append(h, v)

-----------------------------------------------------------------------------
(* Environment: setup.py lines 32-33 *)

\* the characters a value of BLAS_LAPACK_LIBS is made of
Chars == {"a", ":"}

\* a variable of os.environ: unset, or set to a value
\* BLAS_LAPACK_LIB_PATHS is used whole, BLAS_LAPACK_LIBS character by character
PathValues == {"", "/opt/lib"}

LibsValues == SeqsUpTo(Chars, MaxLibsLen)

Unset(empty) == [set |-> FALSE, val |-> empty]

\* os.environ.get(name, []): the value, or the (falsy) default [] when unset
env_lib_dirs == environ.BLAS_LAPACK_LIB_PATHS

env_libs == environ.BLAS_LAPACK_LIBS

\* Python truthiness of what os.environ.get returned: [] and '' are both falsy
Truthy(e, empty) == e.set /\ e.val # empty

\* a run of non-delimiter characters as the string it spells
RECURSIVE Spell(_)
Spell(seg) == IF seg = <<>> THEN "" ELSE seg[1] \o Spell(Tail(seg))

\* str.split(':'): the segments between delimiters, empty segments kept
RECURSIVE SplitFrom(_, _, _)
SplitFrom(s, i, seg) ==
    IF i > Len(s) THEN <<Spell(seg)>>
    ELSE IF s[i] = ":" THEN <<Spell(seg)>> \o SplitFrom(s, i + 1, <<>>)
    ELSE SplitFrom(s, i + 1, Append(seg, s[i]))

Split(s) == SplitFrom(s, 1, <<>>)

-----------------------------------------------------------------------------
(* numpy.distutils.system_info.get_info: the system metadata query *)

InfoNames == {"blas_opt", "blas_mkl", "blas", "lapack_opt", "lapack_mkl", "lapack"}

\* where the libraries of query n live on the modelled systems
DirOf(n) ==
    CASE n = "blas_opt" -> "/usr/lib/blas_opt"
      [] n = "blas_mkl" -> "/usr/lib/blas_mkl"
      [] n = "blas" -> "/usr/lib/blas"
      [] n = "lapack_opt" -> "/usr/lib/lapack_opt"
      [] n = "lapack_mkl" -> "/usr/lib/lapack_mkl"
      [] n = "lapack" -> "/usr/lib/lapack"

\* results a query can give: nothing, an MKL installation, another library,
\* a record without a 'libraries' key
NotFound == EmptyDict

MklInfo(n) ==
    [libraries |-> <<"mkl_intel_lp64", "mkl_core">>,
     library_dirs |-> <<DirOf(n)>>,
     define_macros |-> << <<"SCIPY_MKL_H", "None">> >>,
     include_dirs |-> <<"/opt/intel/include">>]

PlainInfo(n) ==
    [libraries |-> <<"openblas">>,
     library_dirs |-> <<DirOf(n)>>,
     define_macros |-> << <<"HAVE_CBLAS", "None">> >>,
     extra_link_args |-> <<"-Wl,-rpath">>]

NoLibsInfo(n) ==
    [extra_compile_args |-> <<"-msse3">>,
     extra_link_args |-> <<"-framework-Accelerate">>,
     library_dirs |-> <<DirOf(n)>>]

\* what is installed for one family (blas or lapack): the results of its
\* optimized, MKL-only and plain queries
Scenarios ==
    { <<"none", "none", "none">>,      \* nothing installed
      <<"plain", "none", "plain">>,    \* an optimized library that is not MKL
      <<"none", "none", "plain">>,     \* only the reference library
      <<"mkl", "mkl", "plain">>,       \* MKL, over-reported by the optimized query
      <<"mkl", "none", "none">>,       \* MKL reported but not usable
      <<"nolibs", "none", "none">> }   \* a framework record without 'libraries'

Result(kind, n) ==
    CASE kind = "none" -> NotFound
      [] kind = "mkl" -> MklInfo(n)
      [] kind = "plain" -> PlainInfo(n)
      [] kind = "nolibs" -> NoLibsInfo(n)

\* the metadata databases of the modelled systems: query name -> result
SysInfoDBs ==
    { [n \in InfoNames |->
         CASE n = "blas_opt" -> Result(b[1], n)
           [] n = "blas_mkl" -> Result(b[2], n)
           [] n = "blas" -> Result(b[3], n)
           [] n = "lapack_opt" -> Result(l[1], n)
           [] n = "lapack_mkl" -> Result(l[2], n)
           [] n = "lapack" -> Result(l[3], n)]
      : b \in Scenarios, l \in Scenarios }

-----------------------------------------------------------------------------
(* get_infos: setup.py lines 41-71 *)

\* lines 53-59: the BLAS queries made, in order
blas_queries(db) ==
    LET opt == db["blas_opt"]
        hack == "libraries" \in DOMAIN opt /\ "mkl_intel_lp64" \in Range(opt["libraries"])
        q1 == IF hack THEN <<"blas_opt", "blas_mkl">> ELSE <<"blas_opt">>
        r1 == db[q1[Len(q1)]]
    IN  IF DOMAIN r1 = {} THEN Append(q1, "blas") ELSE q1

\* lines 62-68: the LAPACK queries made, in order
lapack_queries(db) ==
    LET opt == db["lapack_opt"]
        hack == "libraries" \in DOMAIN opt /\ "mkl_intel_lp64" \in Range(opt["libraries"])
        q1 == IF hack THEN <<"lapack_opt", "lapack">> ELSE <<"lapack_opt">>
        r1 == db[q1[Len(q1)]]
    IN  IF DOMAIN r1 = {} THEN Append(q1, "lapack") ELSE q1

\* lines 43-50: the dict built from the environment variables
env_vars ==
    (IF Truthy(env_lib_dirs, "")
        THEN [k \in {"library_dirs"} |-> <<env_lib_dirs.val>>] ELSE EmptyDict)
    @@
    (IF Truthy(env_libs, <<>>)
        THEN [k \in {"libraries"} |-> Split(env_libs.val)] ELSE EmptyDict)

\* get_infos with line 43 reading `env_lib_dirs and env_libs`
get_infos_needs_both(db) ==
    IF Truthy(env_lib_dirs, "") /\ Truthy(env_libs, <<>>)
    THEN [blas_info |-> env_vars, lapack_info |-> EmptyDict, calls |-> <<>>]
    ELSE LET bq == blas_queries(db)
             lq == lapack_queries(db)
         IN  [blas_info |-> db[bq[Len(bq)]],
              lapack_info |-> db[lq[Len(lq)]],
              calls |-> [i \in 1..Len(bq \o lq) |->
                           [name |-> (bq \o lq)[i], result |-> db[(bq \o lq)[i]]]]]

\* the whole function: what it returns and the get_info calls it made
get_infos(db) ==
    IF Truthy(env_lib_dirs, "") \/ Truthy(env_libs, <<>>)
    THEN [blas_info |-> env_vars, lapack_info |-> EmptyDict, calls |-> <<>>]
    ELSE LET bq == blas_queries(db)
             lq == lapack_queries(db)
         IN  [blas_info |-> db[bq[Len(bq)]],
              lapack_info |-> db[lq[Len(lq)]],
              calls |-> [i \in 1..Len(bq \o lq) |->
                           [name |-> (bq \o lq)[i], result |-> db[(bq \o lq)[i]]]]]

-----------------------------------------------------------------------------
(* install_scs: setup.py lines 181-229 *)

\* line 184; glob() results stand as the patterns they expand
sources == <<"src/scsmodule.c", "scs/src/*.c", "scs/linsys/*.c">>

\* lines 183, 188-189
libraries == IF platform = "Linux" THEN <<"rt">> ELSE <<>>

\* line 182
extra_compile_args == <<"-O3">>

\* line 185
include_dirs == <<"scs/include", "scs/linsys">>

\* define_macros with line 196 reading `if args.int32`
define_macros_dlong_inverted ==
    << <<"PYTHON", "None">>, <<"CTRLC", "1">>, <<"COPYAMATRIX", "None">> >>
    \o (IF args.float32 THEN << <<"SFLOAT", "1">> >> ELSE <<>>)
    \o (IF args.extraverbose THEN << <<"EXTRA_VERBOSE", "999">> >> ELSE <<>>)
    \o (IF args.blas64 THEN << <<"BLAS64", "1">> >> ELSE <<>>)
    \o (IF args.int32 THEN << <<"DLONG", "1">> >> ELSE <<>>)

\* lines 186, 190-197
define_macros ==
    << <<"PYTHON", "None">>, <<"CTRLC", "1">>, <<"COPYAMATRIX", "None">> >>
    \o (IF args.float32 THEN << <<"SFLOAT", "1">> >> ELSE <<>>)
    \o (IF args.extraverbose THEN << <<"EXTRA_VERBOSE", "999">> >> ELSE <<>>)
    \o (IF args.blas64 THEN << <<"BLAS64", "1">> >> ELSE <<>>)
    \o (IF ~args.int32 THEN << <<"DLONG", "1">> >> ELSE <<>>)

\* setuptools.Extension(name, sources, **kw): every list attribute is the list
\* passed (each argument here is a freshly built list) or a new empty list
Extension(h, name, srcs, kw) ==
    [heap |-> h \o [i \in 1..Len(KeySeq) |-> DictGet(kw, KeySeq[i])],
     obj |-> [k \in Keys |-> Len(h) + IndexOf(KeySeq, k)]
             @@ [name |-> name, sources |-> srcs]]

\* lines 199-206
scs_direct(h) ==
    Extension(h, "_scs_direct",
        sources \o <<"scs/linsys/direct/*.c", "scs/linsys/direct/external/*.c">>,
        [define_macros |-> define_macros,
         include_dirs |-> include_dirs \o <<"scs/linsys/direct/", "scs/linsys/direct/external/">>,
         libraries |-> libraries,
         extra_compile_args |-> extra_compile_args])

\* lines 208-215
scs_indirect(h) ==
    Extension(h, "_scs_indirect",
        sources \o <<"scs/linsys/indirect/*.c">>,
        [define_macros |-> define_macros \o << <<"INDIRECT", "None">> >>,
         include_dirs |-> include_dirs \o <<"scs/linsys/indirect/">>,
         libraries |-> libraries,
         extra_compile_args |-> extra_compile_args])

\* lines 220-228
scs_gpu(h) ==
    Extension(h, "_scs_gpu",
        sources \o <<"scs/linsys/gpu/*.c">>,
        [define_macros |-> define_macros \o << <<"GPU", "None">> >>,
         include_dirs |-> include_dirs \o <<"scs/linsys/gpu/", "/usr/local/cuda/include">>,
         library_dirs |-> <<"/usr/local/cuda/lib", "/usr/local/cuda/lib64">>,
         libraries |-> libraries \o <<"cudart", "cublas", "cusparse">>,
         extra_compile_args |-> extra_compile_args])

\* plan_targets with the test of line 219 dropped
plan_targets_always_gpu(h) ==
    LET d == scs_direct(h)
        i == scs_indirect(d.heap)
        g == scs_gpu(i.heap)
    IN  [heap |-> g.heap, exts |-> <<d.obj, i.obj, g.obj>>]

\* lines 217-229: the targets, in order, and the heap holding their lists
plan_targets(h) ==
    LET d == scs_direct(h)
        i == scs_indirect(d.heap)
        g == scs_gpu(i.heap)
    IN  IF args.gpu
        THEN [heap |-> g.heap, exts |-> <<d.obj, i.obj, g.obj>>]
        ELSE [heap |-> i.heap, exts |-> <<d.obj, i.obj>>]

\* install_scs up to the call of setup(), which runs the build_ext command
install_scs ==
    /\ pc = "install_scs"
    /\ LET p == plan_targets(heap)
       IN  /\ heap' = p.heap
           /\ ext_modules' = p.exts
    /\ pc' = "finalize_options"
    /\ UNCHANGED <<args, platform, environ, copy, infos, get_info_log,
                   compiler, frame, fs, openmp, assembled, built, error>>

-----------------------------------------------------------------------------
(* build_ext_scs.finalize_options: setup.py lines 118-136 *)

\* have_info with the test of line 130 dropped
have_info_always(r) == TRUE

\* line 130: `blas_info or lapack_info`, the truthiness of two dicts
have_info(r) == DOMAIN r.blas_info # {} \/ DOMAIN r.lapack_info # {}

\* lines 131-136: blas_info.pop(k, []) + lapack_info.pop(k, [])
both(r, k) == DictGet(r.blas_info, k) \o DictGet(r.lapack_info, k)

\* self.copy and the heap after lines 124-136, for the result r of get_infos
shared_metadata(h, r) ==
    LET c == Len(h)
    IN  IF have_info(r)
        THEN [heap |-> h \o << <<"numpy/core/include">> \o both(r, "include_dirs"),
                               << <<"USE_LAPACK", "None">> >> \o both(r, "define_macros"),
                               both(r, "library_dirs"),
                               both(r, "libraries"),
                               both(r, "extra_link_args"),
                               both(r, "extra_compile_args") >>,
              copy |-> << <<"include_dirs", c + 1>>, <<"define_macros", c + 2>>,
                          <<"library_dirs", c + 3>>, <<"libraries", c + 4>>,
                          <<"extra_link_args", c + 5>>, <<"extra_compile_args", c + 6>> >>]
        ELSE [heap |-> Alloc(h, <<"numpy/core/include">>),
              copy |-> << <<"include_dirs", c + 1>> >>]

finalize_options ==
    /\ pc = "finalize_options"
    /\ \E db \in SysInfoDBs :
         LET r == get_infos(db)
             m == shared_metadata(heap, r)
         IN  /\ infos' = <<r.blas_info, r.lapack_info>>
             /\ get_info_log' = r.calls
             /\ heap' = m.heap
             /\ copy' = m.copy
    /\ pc' = "build_extensions"
    /\ UNCHANGED <<args, platform, environ, ext_modules, compiler, frame, fs,
                   openmp, assembled, built, error>>

-----------------------------------------------------------------------------
(* build_ext_scs.build_extensions: setup.py lines 138-171 *)

\* the locals of build_extensions and of can_compile_with_openmp;
\* exit_code is -1 while the name is not bound
NoFrame ==
    [flags |-> <<>>, gomp_paths |-> <<>>, curdir |-> "", exit_code |-> -1,
     compile_status |-> "not_run", run_status |-> "not_run", retval |-> FALSE]

\* lines 144-147 and 150-156: an MSVCCompiler, or a compiler without compiler_so
\* (AttributeError caught): no probe, straight to build_ext.build_extensions
build_extensions_skip ==
    /\ pc = "build_extensions"
    /\ \E kind \in {"msvc", "bcpp"} : compiler' = kind
    /\ openmp' = "skipped"
    /\ pc' = "build_extension"
    /\ UNCHANGED <<args, platform, environ, heap, ext_modules, copy, infos,
                   get_info_log, frame, fs, assembled, built, error>>

\* lines 140-151, 158 and 74-76: the probe is entered; mkdtemp, getcwd, chdir
build_extensions_probe ==
    /\ pc = "build_extensions"
    /\ compiler' = "unix"
    /\ frame' = [NoFrame EXCEPT !.flags = <<"-fopenmp">>,
                                !.gomp_paths = <<"/usr/local/gfortran/lib">>,
                                !.curdir = fs.cwd]
    /\ fs' = [cwd |-> "tmpdir", tmpdir_exists |-> TRUE, files |-> {}]
    /\ pc' = "probe_write"
    /\ UNCHANGED <<args, platform, environ, heap, ext_modules, copy, infos,
                   get_info_log, openmp, assembled, built, error>>

\* lines 79-89: the test program is written; an I/O error is not caught
can_compile_with_openmp_write ==
    /\ pc = "probe_write"
    /\ \E ok \in BOOLEAN :
         IF ok
         THEN /\ fs' = [fs EXCEPT !.files = @ \cup {"test_openmp.c"}]
              /\ pc' = "probe_compile"
              /\ error' = error
         ELSE /\ fs' = fs
              /\ pc' = "raised"
              /\ error' = "IOError"
    /\ UNCHANGED <<args, platform, environ, heap, ext_modules, copy, infos,
                   get_info_log, compiler, frame, openmp, assembled, built>>

\* lines 97-100 and 103-104: the compiler runs and its exit status is dropped;
\* OSError (no such executable) is caught, an interrupt is not
can_compile_with_openmp_compile ==
    /\ pc = "probe_compile"
    /\ \E out \in {"OSError", "KeyboardInterrupt", "exit0", "exit1"}, exe \in BOOLEAN :
         CASE out = "OSError" ->
                /\ ~exe
                /\ frame' = [frame EXCEPT !.compile_status = out, !.exit_code = 1]
                /\ pc' = "probe_cleanup"
                /\ UNCHANGED <<fs, error>>
           [] out = "KeyboardInterrupt" ->
                /\ ~exe
                /\ frame' = [frame EXCEPT !.compile_status = out]
                /\ pc' = "raised"
                /\ error' = out
                /\ fs' = fs
           [] OTHER ->
                /\ frame' = [frame EXCEPT !.compile_status = out]
                /\ fs' = [fs EXCEPT !.files = IF exe THEN @ \cup {"test_openmp"} ELSE @]
                /\ pc' = "probe_run"
                /\ error' = error
    /\ UNCHANGED <<args, platform, environ, heap, ext_modules, copy, infos,
                   get_info_log, compiler, openmp, assembled, built>>

\* lines 101-104: the produced executable runs; OSError when it does not exist
can_compile_with_openmp_run ==
    /\ pc = "probe_run"
    /\ IF "test_openmp" \notin fs.files
       THEN /\ frame' = [frame EXCEPT !.run_status = "OSError", !.exit_code = 1]
            /\ pc' = "probe_cleanup"
            /\ error' = error
       ELSE \E out \in {"KeyboardInterrupt", "exit0", "exit1"} :
              IF out = "KeyboardInterrupt"
              THEN /\ frame' = [frame EXCEPT !.run_status = out]
                   /\ pc' = "raised"
                   /\ error' = out
              ELSE /\ frame' = [frame EXCEPT !.run_status = out,
                                             !.exit_code = IF out = "exit0" THEN 0 ELSE 1]
                   /\ pc' = "probe_cleanup"
                   /\ error' = error
    /\ UNCHANGED <<args, platform, environ, heap, ext_modules, copy, infos,
                   get_info_log, compiler, fs, openmp, assembled, built>>

\* lines 106-109: chdir back, rmtree, return exit_code == 0
can_compile_with_openmp_cleanup ==
    /\ pc = "probe_cleanup"
    /\ fs' = [cwd |-> frame.curdir, tmpdir_exists |-> FALSE, files |-> {}]
    /\ frame' = [frame EXCEPT !.retval = (frame.exit_code = 0)]
    /\ pc' = "probe_returned"
    /\ UNCHANGED <<args, platform, environ, heap, ext_modules, copy, infos,
                   get_info_log, compiler, openmp, assembled, built, error>>

\* openmp_args without line 165, the link-argument workaround
openmp_args_compile_only(h, e, flags, gomp_paths) ==
    LET h1 == [h EXCEPT ![e.extra_compile_args] = @ \o flags]
    IN  [h1 EXCEPT ![e.library_dirs] = @ \o gomp_paths]

\* lines 160-165 for the extension e
openmp_args(h, e, flags, gomp_paths) ==
    LET h1 == [h EXCEPT ![e.extra_compile_args] = @ \o flags]
        h2 == [h1 EXCEPT ![e.library_dirs] = @ \o gomp_paths]
    IN  [h2 EXCEPT ![e.extra_link_args] = @ \o (flags \o <<"-lgomp">>)]

\* line 159: for e in self.extensions
RECURSIVE openmp_all(_, _, _, _, _)
openmp_all(h, exts, i, flags, gomp_paths) ==
    IF i > Len(exts) THEN h
    ELSE openmp_all(openmp_args(h, exts[i], flags, gomp_paths), exts, i + 1,
                    flags, gomp_paths)

\* lines 158-171: the probe's answer is used, build_ext.build_extensions follows
build_extensions_apply ==
    /\ pc = "probe_returned"
    /\ IF frame.retval
       THEN /\ heap' = openmp_all(heap, ext_modules, 1, frame.flags, frame.gomp_paths)
            /\ openmp' = "yes"
       ELSE /\ heap' = heap
            /\ openmp' = "no"
    /\ frame' = NoFrame
    /\ pc' = "build_extension"
    /\ UNCHANGED <<args, platform, environ, ext_modules, copy, infos,
                   get_info_log, compiler, fs, assembled, built, error>>

-----------------------------------------------------------------------------
(* build_ext_scs.build_extension: setup.py lines 173-179 *)

\* merge_item with line 176 reading `setattr(ext, k, v)`: the shared list itself
merge_item_alias(h, ext, k, v) ==
    LET fresh == Len(h[ext[k]]) = 0
        e1 == IF fresh THEN [ext EXCEPT ![k] = v] ELSE ext
    IN  [heap |-> [h EXCEPT ![e1[k]] = @ \o h[v]], obj |-> e1]

\* lines 175-177 for one item (k, v) of self.copy
merge_item(h, ext, k, v) ==
    LET fresh == Len(h[ext[k]]) = 0
        h1 == IF fresh THEN Alloc(h, <<>>) ELSE h
        e1 == IF fresh THEN [ext EXCEPT ![k] = Len(h) + 1] ELSE ext
    IN  [heap |-> [h1 EXCEPT ![e1[k]] = @ \o h1[v]], obj |-> e1]

\* line 174: for k, v in self.copy.items()
RECURSIVE merge_all(_, _, _, _)
merge_all(h, ext, items, i) ==
    IF i > Len(items) THEN [heap |-> h, obj |-> ext]
    ELSE LET m == merge_item(h, ext, items[i][1], items[i][2])
         IN  merge_all(m.heap, m.obj, items, i + 1)

\* build_extension with the first failed compilation caught and the target tried again
build_extension_retry ==
    /\ pc = "build_extension"
    /\ LET i == Len(built) + 1
           m == merge_all(heap, ext_modules[i], copy, 1)
       IN  /\ heap' = m.heap
           /\ ext_modules' = [ext_modules EXCEPT ![i] = m.obj]
           /\ assembled' = Append(assembled, ext_modules[i].name)
           /\ \E ok \in BOOLEAN :
                IF ok
                THEN /\ built' = Append(built, ext_modules[i].name)
                     /\ pc' = IF i = Len(ext_modules) THEN "done" ELSE "build_extension"
                     /\ error' = error
                ELSE /\ built' = built
                     /\ pc' = IF error = "none" THEN "build_extension" ELSE "failed"
                     /\ error' = "CompileError"
    /\ UNCHANGED <<args, platform, environ, copy, infos, get_info_log,
                   compiler, frame, fs, openmp>>

\* the next target of build_ext.build_extensions: merged, then compiled by
\* build_ext.build_extension, whose failure is propagated
build_extension ==
    /\ pc = "build_extension"
    /\ LET i == Len(built) + 1
           m == merge_all(heap, ext_modules[i], copy, 1)
       IN  /\ heap' = m.heap
           /\ ext_modules' = [ext_modules EXCEPT ![i] = m.obj]
           /\ assembled' = Append(assembled, ext_modules[i].name)
           /\ \E ok \in BOOLEAN :
                IF ok
                THEN /\ built' = Append(built, ext_modules[i].name)
                     /\ pc' = IF i = Len(ext_modules) THEN "done" ELSE "build_extension"
                     /\ error' = error
                ELSE /\ built' = built
                     /\ pc' = "failed"
                     /\ error' = "CompileError"
    /\ UNCHANGED <<args, platform, environ, copy, infos, get_info_log,
                   compiler, frame, fs, openmp>>

-----------------------------------------------------------------------------
(* The build invocation *)

Flags == [gpu : BOOLEAN, float32 : BOOLEAN, extraverbose : BOOLEAN,
          int32 : BOOLEAN, blas64 : BOOLEAN]

Environments ==
    [BLAS_LAPACK_LIB_PATHS : {Unset("")} \cup [set : {TRUE}, val : PathValues],
     BLAS_LAPACK_LIBS : {Unset(<<>>)} \cup [set : {TRUE}, val : LibsValues]]

Init ==
    /\ args \in Flags
    /\ platform \in {"Linux", "Darwin"}
    /\ environ \in Environments
    /\ pc = "install_scs"
    /\ heap = <<>>
    /\ ext_modules = <<>>
    /\ copy = <<>>
    /\ infos = <<EmptyDict, EmptyDict>>
    /\ get_info_log = <<>>
    /\ compiler = "unset"
    /\ frame = NoFrame
    /\ fs = [cwd |-> "project", tmpdir_exists |-> FALSE, files |-> {}]
    /\ openmp = "undecided"
    /\ assembled = <<>>
    /\ built = <<>>
    /\ error = "none"

Next ==
    \/ install_scs
    \/ finalize_options
    \/ build_extensions_skip
    \/ build_extensions_probe
    \/ can_compile_with_openmp_write
    \/ can_compile_with_openmp_compile
    \/ can_compile_with_openmp_run
    \/ can_compile_with_openmp_cleanup
    \/ build_extensions_apply
    \/ build_extension

Spec == Init /\ [][Next]_vars

-----------------------------------------------------------------------------
(* Reading the state *)

\* the value of list attribute k of extension e
Attr(e, k) == heap[e[k]]

Targets == Range(ext_modules)

Names(exts) == [i \in 1..Len(exts) |-> exts[i].name]

MacroNames(e) == {m[1] : m \in Range(Attr(e, "define_macros"))}

\* the value self.copy holds for key k, [] when the key is absent
Shared(k) ==
    IF \E i \in 1..Len(copy) : copy[i][1] = k
    THEN heap[copy[CHOOSE i \in 1..Len(copy) : copy[i][1] = k][2]]
    ELSE <<>>

SharedKeys == {copy[i][1] : i \in 1..Len(copy)}

IsPrefix(s, t) == Len(s) <= Len(t) /\ \A i \in 1..Len(s) : s[i] = t[i]

\* get_infos has returned
Resolved == copy # <<>>

\* can_compile_with_openmp has returned or raised
ProbeLeft == pc \in {"probe_returned", "raised"}

-----------------------------------------------------------------------------
(* C1: can_compile_with_openmp returns true only if the compile step and the
   run step both ended with exit status zero; a missing compiler, a non-zero
   compile status, a missing executable and a non-zero run status each give
   false, returned and not raised. *)
C1_TrueOnlyIfBothZero ==
    /\ pc = "probe_returned" /\ frame.retval
          => frame.compile_status = "exit0" /\ frame.run_status = "exit0"
    /\ pc = "probe_returned" /\ (frame.compile_status \in {"OSError", "exit1"}
                                    \/ frame.run_status \in {"OSError", "exit1"})
          => ~frame.retval
    /\ pc = "raised" => error \in {"IOError", "KeyboardInterrupt"}

(* C5: on every exit path of can_compile_with_openmp, returning or raising,
   the temporary directory is gone and the working directory is the one in
   effect before the call. *)
C5_CleanupOnEveryExit ==
    ProbeLeft => ~fs.tmpdir_exists /\ fs.cwd = frame.curdir

(* C2 as stated: when the probe succeeds, -fopenmp and the gomp library are
   both in extra_compile_args and both in extra_link_args of every target. *)
C2_FlagAndLibraryInBoth ==
    openmp = "yes" =>
        \A e \in Targets :
            /\ {"-fopenmp", "-lgomp"} \subseteq Range(Attr(e, "extra_compile_args"))
            /\ {"-fopenmp", "-lgomp"} \subseteq Range(Attr(e, "extra_link_args"))

(* C2 amended: when the probe succeeds, -fopenmp is in extra_compile_args and
   in extra_link_args of every target, the GPU target included, and the gomp
   library (-lgomp) is in extra_link_args of every target. *)
C2_FlagInBothLibraryInLink ==
    openmp = "yes" =>
        \A e \in Targets :
            /\ "-fopenmp" \in Range(Attr(e, "extra_compile_args"))
            /\ {"-fopenmp", "-lgomp"} \subseteq Range(Attr(e, "extra_link_args"))

C2_Witness ==
    /\ openmp = "yes"
    /\ Len(ext_modules) = 3
    /\ pc = "done"

-----------------------------------------------------------------------------
\* the get_info calls of one family, in order
FamilyCalls(family) ==
    SelectSeq(get_info_log,
              LAMBDA c : c.name \in {family, family \o "_opt", family \o "_mkl"})

ListsMkl(info) ==
    "libraries" \in DOMAIN info /\ "mkl_intel_lp64" \in Range(info["libraries"])

\* the correction of C3 for one family, whose result get_infos returned as info
Corrected(family, info) ==
    LET calls == FamilyCalls(family)
    IN  /\ calls # <<>>
        /\ calls[1].name = family \o "_opt"
        /\ ListsMkl(calls[1].result) =>
              /\ Len(calls) >= 2
              /\ calls[2].name = family \o "_mkl"
        /\ \A i \in 1..Len(calls) :
              calls[i].name = family => i > 1 /\ DOMAIN calls[i-1].result = {}
        /\ info = calls[Len(calls)].result

(* C3: without environment overrides, for BLAS and for LAPACK independently,
   an optimized result that lists mkl_intel_lp64 is discarded and the MKL-only
   variant of the same family is queried and returned; the plain query is
   made only when the result so far is empty. *)
C3_MklCorrectionBothFamilies ==
    Resolved /\ get_info_log # <<>> =>
        /\ Corrected("blas", infos[1])
        /\ Corrected("lapack", infos[2])

-----------------------------------------------------------------------------
\* the characters of a library name
Letters(str) ==
    CASE str = "" -> <<>>
      [] str = "a" -> <<"a">>
      [] str = "aa" -> <<"a", "a">>
      [] str = "aaa" -> <<"a", "a", "a">>
      [] str = "aaaa" -> <<"a", "a", "a", "a">>

\* ':'.join(parts), as characters
RECURSIVE Join(_)
Join(parts) ==
    IF Len(parts) = 0 THEN <<>>
    ELSE IF Len(parts) = 1 THEN Letters(parts[1])
    ELSE Letters(parts[1]) \o <<":">> \o Join(Tail(parts))

\* info is the metadata built from exactly the values of the variables used:
\* the path whole, and names whose ':'.join is the value of BLAS_LAPACK_LIBS
FromEnvironment(info, usePaths, useLibs) ==
    /\ DOMAIN info = (IF usePaths THEN {"library_dirs"} ELSE {})
                       \cup (IF useLibs THEN {"libraries"} ELSE {})
    /\ usePaths => info["library_dirs"] = <<env_lib_dirs.val>>
    /\ useLibs => /\ Join(info["libraries"]) = env_libs.val
                  /\ Len(info["libraries"]) =
                        1 + Cardinality({i \in 1..Len(env_libs.val) : env_libs.val[i] = ":"})

(* C4 as stated: whenever BLAS_LAPACK_LIB_PATHS or BLAS_LAPACK_LIBS is set,
   an empty value included, get_infos returns the metadata built from exactly
   those values and get_info is never called. *)
C4_SetOverrides ==
    env_lib_dirs.set \/ env_libs.set =>
        /\ get_info_log = <<>>
        /\ Resolved =>
              /\ FromEnvironment(infos[1], env_lib_dirs.set, env_libs.set)
              /\ infos[2] = EmptyDict

(* C4 amended: whenever BLAS_LAPACK_LIB_PATHS or BLAS_LAPACK_LIBS is set to a
   non-empty value, get_infos returns the metadata built from exactly the
   non-empty values (the path as the one library_dirs entry, the names split
   on ':' in order; a variable that is unset or empty contributes no key)
   with an empty LAPACK record, and get_info is never called. *)
C4_NonEmptyOverrides ==
    LET usePaths == env_lib_dirs.set /\ env_lib_dirs.val # ""
        useLibs == env_libs.set /\ env_libs.val # <<>>
    IN  usePaths \/ useLibs =>
            /\ get_info_log = <<>>
            /\ Resolved =>
                  /\ FromEnvironment(infos[1], usePaths, useLibs)
                  /\ infos[2] = EmptyDict

C4_Witness ==
    /\ pc = "done"
    /\ ~env_lib_dirs.set
    /\ env_libs.set
    /\ Len(env_libs.val) = 2
    /\ env_libs.val[2] = ":"
    /\ infos[1] = [libraries |-> <<"a", "">>]

-----------------------------------------------------------------------------
(* C6: from target planning on, for every combination of flags, each target's
   macro list has INDIRECT iff it is the indirect target, GPU iff it is the
   GPU target, SFLOAT=1 iff --float and DLONG=1 iff not --int (the discovered
   BLAS/LAPACK macros of the model do not use these names). *)
C6_MacroConsistency ==
    \A e \in Targets :
        /\ "INDIRECT" \in MacroNames(e) <=> e.name = "_scs_indirect"
        /\ "GPU" \in MacroNames(e) <=> e.name = "_scs_gpu"
        /\ <<"SFLOAT", "1">> \in Range(Attr(e, "define_macros")) <=> args.float32
        /\ "SFLOAT" \in MacroNames(e) <=> args.float32
        /\ <<"DLONG", "1">> \in Range(Attr(e, "define_macros")) <=> ~args.int32
        /\ "DLONG" \in MacroNames(e) <=> ~args.int32

C6_Witness ==
    /\ args.gpu /\ args.float32 /\ args.int32
    /\ pc = "done"
    /\ openmp = "yes"
    /\ "define_macros" \in SharedKeys
    /\ \E e \in Targets :
          /\ e.name = "_scs_gpu"
          /\ {"SFLOAT", "GPU", "USE_LAPACK"} \subseteq MacroNames(e)
          /\ "DLONG" \notin MacroNames(e)

-----------------------------------------------------------------------------
CudaLibraries == {"cudart", "cublas", "cusparse"}

CudaDirs == {"/usr/local/cuda/include", "/usr/local/cuda/lib", "/usr/local/cuda/lib64",
             "scs/linsys/gpu/"}

(* C7: once planned, the target list is [_scs_direct, _scs_indirect] without
   --gpu and [_scs_direct, _scs_indirect, _scs_gpu] with it, and neither the
   GPU macro nor the CUDA libraries nor the CUDA directories are on the direct
   or the indirect target. *)
C7_TargetList ==
    pc # "install_scs" =>
        /\ Names(ext_modules) = IF args.gpu
                                THEN <<"_scs_direct", "_scs_indirect", "_scs_gpu">>
                                ELSE <<"_scs_direct", "_scs_indirect">>
        /\ \A e \in Targets :
              e.name # "_scs_gpu" =>
                  /\ "GPU" \notin MacroNames(e)
                  /\ Range(Attr(e, "libraries")) \cap CudaLibraries = {}
                  /\ Range(Attr(e, "include_dirs")) \cap CudaDirs = {}
                  /\ Range(Attr(e, "library_dirs")) \cap CudaDirs = {}

C7_Witness ==
    /\ args.gpu
    /\ pc = "done"
    /\ built = <<"_scs_direct", "_scs_indirect", "_scs_gpu">>
    /\ CudaLibraries \subseteq Range(Attr(ext_modules[3], "libraries"))
    /\ "GPU" \in MacroNames(ext_modules[3])

-----------------------------------------------------------------------------
BothEmpty == Resolved /\ DOMAIN infos[1] = {} /\ DOMAIN infos[2] = {}

(* C8: when get_infos returns two empty records no target ever carries
   USE_LAPACK, the shared metadata has no macros, finalize_options raises
   nothing and the build runs on to compile every target; USE_LAPACK is in the
   shared metadata only when the BLAS or the LAPACK record is non-empty. *)
C8_NoAccelerationNoMacro ==
    /\ BothEmpty =>
          /\ \A e \in Targets : "USE_LAPACK" \notin MacroNames(e)
          /\ SharedKeys = {"include_dirs"}
          /\ pc = "build_extensions" => error = "none"
          /\ pc = "done" => built = Names(ext_modules)
    /\ <<"USE_LAPACK", "None">> \in Range(Shared("define_macros")) => ~BothEmpty
    /\ (\E e \in Targets : "USE_LAPACK" \in MacroNames(e)) => ~BothEmpty

C8_Witness ==
    /\ BothEmpty
    /\ pc = "done"
    /\ Len(built) = 3
    /\ assembled = built

-----------------------------------------------------------------------------
(* C9 as stated: the linear-algebra metadata is resolved before the targets are
   planned, and every target is assembled before any target is compiled. *)
C9_ResolveThenPlanThenAssembleAll ==
    /\ ext_modules # <<>> => Resolved
    /\ built # <<>> => assembled = Names(ext_modules)

\* the order the phases do have
C9_OrderInv ==
    /\ Resolved => ext_modules # <<>>
    /\ openmp # "undecided" => Resolved
    /\ openmp \in {"undecided", "skipped", "yes", "no"}
    /\ assembled # <<>> => openmp # "undecided"
    /\ IsPrefix(built, assembled)
    /\ IsPrefix(assembled, Names(ext_modules))
    /\ Len(assembled) <= Len(built) + 1
    /\ Len(assembled) = Len(built) + 1 <=> pc = "failed"
    /\ pc = "failed" <=> error = "CompileError"
    /\ pc = "done" => built = Names(ext_modules) /\ error = "none"

\* a step never undoes a phase, and nothing follows a failed compilation
C9_OrderStep ==
    /\ ext_modules # <<>> => Names(ext_modules') = Names(ext_modules)
    /\ Resolved => copy' = copy
    /\ openmp # "undecided" => openmp' = openmp
    /\ IsPrefix(built, built')
    /\ pc = "failed" => UNCHANGED vars

(* C9 amended: the targets are planned first, then the linear-algebra metadata
   is resolved, then exactly one of probed and skipped happens, then each
   target in list order is assembled and at once compiled (so a later target
   is assembled after the earlier ones were compiled), then the invocation is
   done; a compile failure ends the invocation with the error propagated and
   nothing retried. *)
C9_PhaseOrder == []C9_OrderInv /\ [][C9_OrderStep]_vars

C9_Witness ==
    /\ pc = "failed"
    /\ openmp = "yes"
    /\ built = <<"_scs_direct", "_scs_indirect">>
    /\ assembled = <<"_scs_direct", "_scs_indirect", "_scs_gpu">>

-----------------------------------------------------------------------------
\* the lists self.copy holds are the same objects with the same contents
SharedUntouched ==
    /\ copy' = copy
    /\ \A i \in 1..Len(copy) : heap'[copy[i][2]] = heap[copy[i][2]]

\* build_extension on target i: every shared key appended, nothing else moved
MergeOnlyAppends(i) ==
    /\ \A k \in Keys :
          heap'[ext_modules'[i][k]] =
              Attr(ext_modules[i], k) \o (IF k \in SharedKeys THEN Shared(k) ELSE <<>>)
    /\ \A j \in (1..Len(ext_modules)) \ {i} :
          \A k \in Keys : heap'[ext_modules'[j][k]] = Attr(ext_modules[j], k)
    /\ SharedUntouched

\* build_extensions applying the probe's answer: targets only grow
OpenmpOnlyAppends ==
    /\ \A j \in 1..Len(ext_modules) :
          \A k \in Keys :
              /\ IsPrefix(Attr(ext_modules[j], k), heap'[ext_modules'[j][k]])
              /\ k \in {"define_macros", "include_dirs", "libraries"} =>
                    heap'[ext_modules'[j][k]] = Attr(ext_modules[j], k)
    /\ SharedUntouched

(* C10: build_extension only appends: each list of the target becomes its old
   value followed by the shared list of that key, self.copy and the lists of
   every other target stay as they are; applying the OpenMP flags in
   build_extensions changes the targets' own lists only. *)
C10_MergeFrame ==
    [][/\ pc = "build_extension" =>
             \E i \in 1..Len(ext_modules) : i = Len(built) + 1 /\ MergeOnlyAppends(i)
       /\ pc = "probe_returned" => OpenmpOnlyAppends]_vars

C10_Witness ==
    /\ pc = "build_extension"
    /\ Len(copy) = 6
    /\ openmp = "yes"
    /\ Len(built) = 1
    /\ Len(Attr(ext_modules[1], "library_dirs")) >= 2
    /\ Len(Attr(ext_modules[2], "library_dirs")) = 1

====
